---- MODULE Spec2Model ----
(***************************************************************************)
(* dashcam_backend: the asynchronous video-evidence extraction pipeline.   *)
(*                                                                         *)
(* The model follows app/tasks/celery_tasks.py (process_incident_video):   *)
(* a task invocation looks its incident up, marks it processing, extracts  *)
(* the frames, walks the frame loop adding DetectedVehicle / LicensePlate  *)
(* objects to its SQLAlchemy session, commits them, tries a thumbnail and  *)
(* marks the incident completed; an outer handler marks it failed.         *)
(* The database (incidents, detected_vehicles, license_plates) is shared   *)
(* by the task invocations; everything else is local to one invocation.    *)
(***************************************************************************)
EXTENDS Integers, Sequences, FiniteSets, TLC

\* ------------------------------------------------------------------ bounds

\* Number of task invocations (deliveries of process_incident_video).
MaxRuns == 2
\* Longest sampled frame sequence extract_frames returns.
MaxFrames == 2

Runs == 1..MaxRuns

\* ------------------------------------------------------- program constants

\* ProcessingStatus (app/models/incident.py)
PENDING == "pending"
PROCESSING == "processing"
COMPLETED == "completed"
FAILED == "failed"
ProcessingStatus == {PENDING, PROCESSING, COMPLETED, FAILED}

\* SQL NULL / Python None for a nullable column.
NULL == <<>>

\* Incident identifiers a task may be invoked with: "inc1" is the stored
\* incident, "ghost" resolves to no row.
IncidentIds == {"inc1", "ghost"}

\* ---------------------------------------------------------- frame contents
(* A sampled frame, seen through what the detector and the OCR service do   *)
(* on it (the backends are deterministic: the same frame always behaves    *)
(* the same way).                                                          *)
(*   det      "ok" | "raise"   ml_detector.detect_vehicles(frame)          *)
(*   vehicles the detections it returns, in order; for each                *)
(*              row   "ok" | "raise"  building/adding the DetectedVehicle  *)
(*                                    (lines 69-83, outside the inner try) *)
(*              plate NoRead | Raise | text   crop + read_plate_text       *)
(*   loc      "ok" | "raise"   ocr_service.detect_license_plate(frame)     *)
(*   hits     per located region: NoRead | Raise | text                    *)
NoRead == "-"
Raise == "!"

Veh(vt, row, plate) == [vehicle_type |-> vt, row |-> row, plate |-> plate]
Frame(det, vehicles, loc, hits) ==
    [det |-> det, vehicles |-> vehicles, loc |-> loc, hits |-> hits]

\* no vehicle, no plate
F_empty == Frame("ok", <<>>, "ok", <<>>)
\* one car whose crop reads ABC123, and a whole-frame region reading ABC123
F_both == Frame("ok", <<Veh("car", "ok", "ABC123")>>, "ok", <<"ABC123">>)
\* the detector call raises
F_detRaise == Frame("raise", <<>>, "ok", <<"LMN456">>)
\* the second detection's row cannot be built, after the first was added
F_midRaise == Frame("ok", <<Veh("truck", "ok", "XYZ789"), Veh("bus", "raise", NoRead)>>,
                    "ok", <<"XYZ789">>)
\* the first vehicle's plate read raises; the second vehicle is fine; the
\* locator raises on its third region
F_plateRaise == Frame("ok", <<Veh("car", "ok", Raise), Veh("motorcycle", "ok", "XYZ789")>>,
                      "ok", <<NoRead, "LMN456", Raise, "ABC123">>)

FrameKinds == <<F_both, F_detRaise, F_empty, F_midRaise, F_plateRaise>>

\* n frames, the kinds in turn starting from kind k.
Rotation(k, n) ==
    [i \in 1..n |-> FrameKinds[((k + i - 2) % Len(FrameKinds)) + 1]]

\* n frames without any detection.
Blank(n) == [i \in 1..n |-> F_empty]

\* The sampled frame sequences considered for the stored incident's video:
\* up to MaxFrames frames, every kind at every position, and the videos in
\* which nothing is detected.
Videos ==
    {Rotation(k, n) : k \in DOMAIN FrameKinds, n \in 0..MaxFrames}
        \cup {Blank(n) : n \in 0..MaxFrames}


\* ------------------------------------------------------------ ORM objects

\* DetectedVehicle(...) as built at celery_tasks.py:69-79 (make/model/color,
\* confidence and bounding_box are carried through unchanged and left out).
DetectedVehicle(detection_id, incident_id, vehicle_type, frame_timestamp) ==
    [table |-> "detected_vehicles", detection_id |-> detection_id,
     incident_id |-> incident_id, vehicle_type |-> vehicle_type,
     frame_timestamp |-> frame_timestamp]

\* LicensePlate(...) as built at celery_tasks.py:96-106 and 127-137.
LicensePlate(plate_id, incident_id, detection_id, plate_number, frame_timestamp) ==
    [table |-> "license_plates", plate_id |-> plate_id,
     incident_id |-> incident_id, detection_id |-> detection_id,
     plate_number |-> plate_number, frame_timestamp |-> frame_timestamp]

\* str(uuid.uuid4()): a fresh identifier. Every object a run adds to its
\* session draws exactly one, so <<run, position in the session>> is fresh.
Uuid4(r, sess) == <<r, Len(sess) + 1>>

\* --------------------------------------------------- the per-frame algorithm

\* Mutant of PlateOnVehicle: a raising plate read takes the vehicle's
\* DetectedVehicle (the last object added) out of the session.
PlateOnVehicle_DropsVehicle(sess, r, incident_id, ts, dv, plate) ==
    IF plate = Raise
    THEN SubSeq(sess, 1, Len(sess) - 1)
    ELSE IF plate = NoRead
    THEN sess
    ELSE Append(sess, LicensePlate(Uuid4(r, sess), incident_id, dv.detection_id, plate, ts))

\* Lines 84-110: crop the vehicle, read its plate, add a LicensePlate tied to
\* the vehicle. A raise in here is caught by the inner except (line 109).
PlateOnVehicle(sess, r, incident_id, ts, dv, plate) ==
    IF plate = Raise \/ plate = NoRead
    THEN sess
    ELSE Append(sess, LicensePlate(Uuid4(r, sess), incident_id, dv.detection_id, plate, ts))

\* Lines 68-110: the loop over the detections of one frame. `raised` tells
\* that an exception left the loop (it is caught at line 143); the objects
\* added before it stay in the session.
RECURSIVE SaveVehicles(_, _, _, _, _)
SaveVehicles(sess, r, incident_id, ts, vehicles) ==
    IF vehicles = <<>>
    THEN [session |-> sess, raised |-> FALSE]
    ELSE LET v == Head(vehicles)
         IN IF v.row = "raise"
            THEN [session |-> sess, raised |-> TRUE]
            ELSE LET dv == DetectedVehicle(Uuid4(r, sess), incident_id, v.vehicle_type, ts)
                     s1 == Append(sess, dv)
                     s2 == PlateOnVehicle(s1, r, incident_id, ts, dv, v.plate)
                 IN SaveVehicles(s2, r, incident_id, ts, Tail(vehicles))

\* Lines 116-138: the loop over the located regions. A raise ends the loop
\* (inner except, line 140); plates added before it stay in the session.
RECURSIVE SaveLocated(_, _, _, _, _)
SaveLocated(sess, r, incident_id, ts, hits) ==
    IF hits = <<>> \/ Head(hits) = Raise
    THEN sess
    ELSE LET s1 == IF Head(hits) = NoRead
                   THEN sess
                   ELSE Append(sess, LicensePlate(Uuid4(r, sess), incident_id, NULL,
                                                  Head(hits), ts))
         IN SaveLocated(s1, r, incident_id, ts, Tail(hits))

\* Mutant of GeneralPlates: a whole-frame read is dropped when the session
\* already holds a plate with that text for the frame (deduplication).
RECURSIVE SaveLocatedDedup(_, _, _, _, _)
SaveLocatedDedup(sess, r, incident_id, ts, hits) ==
    IF hits = <<>> \/ Head(hits) = Raise
    THEN sess
    ELSE LET seen == \E k \in DOMAIN sess :
                        /\ sess[k].table = "license_plates"
                        /\ sess[k].frame_timestamp = ts
                        /\ sess[k].plate_number = Head(hits)
             s1 == IF Head(hits) = NoRead \/ seen
                   THEN sess
                   ELSE Append(sess, LicensePlate(Uuid4(r, sess), incident_id, NULL,
                                                  Head(hits), ts))
         IN SaveLocatedDedup(s1, r, incident_id, ts, Tail(hits))

GeneralPlates_Dedup(sess, r, incident_id, ts, frame) ==
    IF frame.loc = "raise"
    THEN sess
    ELSE SaveLocatedDedup(sess, r, incident_id, ts, frame.hits)

\* Lines 112-141: general plate detection on the full frame.
GeneralPlates(sess, r, incident_id, ts, frame) ==
    IF frame.loc = "raise"
    THEN sess
    ELSE SaveLocated(sess, r, incident_id, ts, frame.hits)

\* Mutant of FrameTimestamp: frames are counted from one.
FrameTimestamp_FromOne(frame_idx) == frame_idx + 1

\* Line 61: frame_timestamp = float(frame_idx)
FrameTimestamp(frame_idx) == frame_idx

\* Lines 61-144: the body of the frame loop for frame number frame_idx. The
\* result is the session after the frame; `raised` is TRUE when the outer
\* except (line 143) caught an exception.
FrameBody(sess, r, incident_id, frame_idx, frame) ==
    LET frame_timestamp == FrameTimestamp(frame_idx)
    IN IF frame.det = "raise"
       THEN [session |-> sess, raised |-> TRUE]
       ELSE LET sv == SaveVehicles(sess, r, incident_id, frame_timestamp, frame.vehicles)
            IN IF sv.raised
               THEN sv
               ELSE [session |-> GeneralPlates(sv.session, r, incident_id,
                                               frame_timestamp, frame),
                     raised |-> FALSE]

\* Mutant of NextFrameIdx: a raising frame ends the loop (break).
NextFrameIdx_Break(frame_idx, raised, n_frames) ==
    IF raised THEN n_frames ELSE frame_idx + 1

\* Line 60 / 143-144: where the loop goes after a frame: always to the next
\* frame, whether the frame raised or not.
NextFrameIdx(frame_idx, raised, n_frames) == frame_idx + 1


\* -------------------------------------------------------------------- state

VARIABLES
    \* the database (committed state)
    incidents,          \* incident_id -> processing_status, for the stored rows
    detected_vehicles,  \* the committed DetectedVehicle rows
    license_plates,     \* the committed LicensePlate rows
    \* the stored incident's video file
    video_ok,           \* FALSE: missing or cannot be opened
    video,              \* the frames extract_frames(video_path, fps=1) returns
    \* one task invocation each
    pc,                 \* where the invocation is in process_incident_video
    incident_id,        \* its argument
    frame_idx,          \* the loop variable of line 60
    session,            \* db.new: the objects added and not yet committed
    crashed,            \* the invocations whose worker process has died
    \* what each invocation has done so far (history, read by the properties)
    writes,             \* the processing_status values it has committed
    extracted,          \* "none" | "ok" | "raised": extract_frames' outcome
    attempted,          \* the frame indices whose loop body it has run
    thumb,              \* "none" | "ok" | "raised": generate_thumbnail's outcome
    fault,              \* "none" or the database call of the main path that raised
    \* the HTTP API (app/api/v1/endpoints/incidents.py)
    details,            \* incident_id -> the other columns of the stored incident
    files,              \* the incidents whose video file raw.mp4 is on disk
    queue,              \* the process_incident_video tasks sent to the broker
    fk_enforced,        \* whether the database engine enforces foreign keys
    request,            \* the last request served (history, read by the properties)
    response,           \* the answer it got
    deleted,            \* the incidents delete_incident has removed (history)
    \* the accounts (app/api/v1/endpoints/auth.py, users.py)
    users,              \* user_id -> email and username of the stored users
    user_requests,      \* the register / update_user_profile requests, one per slot
    \* one call of a service function (app/services)
    service_call        \* the function called, its arguments and what it returned

db == <<incidents, detected_vehicles, license_plates>>
file == <<video_ok, video>>
hist == <<writes, extracted, attempted, thumb, fault>>
task == <<pc, incident_id, frame_idx, session, crashed>>
accounts == <<users, user_requests>>
api == <<details, files, queue, fk_enforced, request, response, deleted, accounts>>
svc == <<service_call>>
vars == <<incidents, detected_vehicles, license_plates, video_ok, video,
          pc, incident_id, frame_idx, session, crashed,
          writes, extracted, attempted, thumb, fault,
          details, files, queue, fk_enforced, request, response, deleted,
          users, user_requests, service_call>>

Range(s) == {s[k] : k \in DOMAIN s}

\* The user who reported the stored incident, and another user.
Users == {"alice", "bob"}

\* The clock (datetime.utcnow()), in hours.
Now == 100

\* The columns of an incident other than its key and its status
\* (app/models/incident.py:32-36).
Incident(user_id, latitude, longitude, timestamp) ==
    [user_id |-> user_id, latitude |-> latitude, longitude |-> longitude,
     timestamp |-> timestamp]

\* No task invocation has started.
TasksIdle ==
    /\ pc = [r \in Runs |-> "idle"]
    /\ incident_id = [r \in Runs |-> "inc1"]
    /\ frame_idx = [r \in Runs |-> 0]
    /\ session = [r \in Runs |-> <<>>]
    /\ crashed = {}
    /\ writes = [r \in Runs |-> <<>>]
    /\ extracted = [r \in Runs |-> "none"]
    /\ attempted = [r \in Runs |-> <<>>]
    /\ thumb = [r \in Runs |-> "none"]
    /\ fault = [r \in Runs |-> "none"]

\* No request has been served.
ApiIdle ==
    /\ queue = <<>>
    /\ request = [n |-> 0, method |-> "none", path |-> "none", user |-> "none",
                  form |-> [none |-> TRUE], params |-> [none |-> TRUE]]
    /\ response = [endpoint |-> "none", status_code |-> 0, body |-> "none"]
    /\ deleted = {}

\* Requests on accounts served concurrently in one behaviour.
MaxCalls == 3
Calls == 1..MaxCalls

\* A stored user (app/models/user.py:13-15); the other columns play no part.
User(email, username) == [email |-> email, username |-> username]

\* The stored users, and no request on accounts under way.
AccountsIdle ==
    /\ users = [u \in Users |-> User(u \o "@x", u)]
    /\ user_requests =
           [c \in Calls |-> [op |-> "none", pc |-> "idle", user_id |-> "none",
                             email |-> "none", username |-> "none", status_code |-> 0]]

\* No service function has been called.
ServicesIdle ==
    /\ service_call = [fn |-> "none"]

Init ==
    /\ incidents = [i \in {"inc1"} |-> PENDING]
    /\ detected_vehicles = {}
    /\ license_plates = {}
    /\ \/ video_ok = TRUE /\ video \in Videos
       \/ video_ok = FALSE /\ video = <<>>
    /\ details = [i \in {"inc1"} |-> Incident("alice", 37, -122, Now)]
    /\ files = IF video_ok THEN {"inc1"} ELSE {}
    /\ fk_enforced = TRUE
    /\ ApiIdle
    /\ AccountsIdle
    /\ ServicesIdle
    /\ pc = [r \in Runs |-> "idle"]
    /\ incident_id = [r \in Runs |-> "inc1"]
    /\ frame_idx = [r \in Runs |-> 0]
    /\ session = [r \in Runs |-> <<>>]
    /\ crashed = {}
    /\ writes = [r \in Runs |-> <<>>]
    /\ extracted = [r \in Runs |-> "none"]
    /\ attempted = [r \in Runs |-> <<>>]
    /\ thumb = [r \in Runs |-> "none"]
    /\ fault = [r \in Runs |-> "none"]

\* ---------------------------------------------------------------- the task

\* Mutant of Found: the "if not incident" test is missing.
Found_Always(id) == TRUE

\* Line 32-34: db.query(Incident).filter(...).first() found a row.
Found(id) == id \in DOMAIN incidents

\* incident.processing_status = status; db.commit() succeeding: the UPDATE
\* finds the incident's row.
CommitStatus(r, status) ==
    /\ Found(incident_id[r])
    /\ incidents' = [incidents EXCEPT ![incident_id[r]] = status]
    /\ writes' = [writes EXCEPT ![r] = Append(@, status)]

\* A database call of the main path raising: control goes to the outer
\* except (line 167); the failed commit has rolled the session back, which
\* expunges the pending objects.
RaiseToHandler(r, call) ==
    /\ pc' = [pc EXCEPT ![r] = "handler"]
    /\ fault' = [fault EXCEPT ![r] = call]
    /\ session' = [session EXCEPT ![r] = <<>>]

\* Lines 27-36: the task starts and looks the incident up. Invocations are
\* interchangeable, so they are numbered in the order they start.
QueryIncident(r, id) ==
    /\ pc[r] = "idle"
    /\ \A q \in Runs : q < r => pc[q] # "idle"
    /\ incident_id' = [incident_id EXCEPT ![r] = id]
    /\ pc' = [pc EXCEPT ![r] = IF Found(id) THEN "claim" ELSE "done"]
    /\ UNCHANGED <<db, file, api, svc, frame_idx, session, crashed, hist>>

\* Lines 38-40: update status to processing.
MarkProcessing(r) ==
    /\ pc[r] = "claim"
    /\ r \notin crashed
    /\ CommitStatus(r, PROCESSING)
    /\ pc' = [pc EXCEPT ![r] = "extract"]
    /\ UNCHANGED <<detected_vehicles, license_plates, file, api, svc, incident_id, frame_idx,
                   session, crashed, extracted, attempted, thumb, fault>>

\* Line 51 with video_processor.py:26-33: incident.video_path is read (from
\* the incident's row) and the file is there and opens.
Readable(id) == Found(id) /\ id \in files

\* Lines 49-54 with video_processor.py:26-51: extract_frames raises when the
\* file is missing or cannot be opened, and returns the frames otherwise.
ExtractFrames(r) ==
    /\ pc[r] = "extract"
    /\ r \notin crashed
    /\ extracted' = [extracted EXCEPT
                        ![r] = IF Readable(incident_id[r]) THEN "ok" ELSE "raised"]
    /\ pc' = [pc EXCEPT
                 ![r] = IF Readable(incident_id[r]) THEN "frames" ELSE "extract_failed"]
    /\ frame_idx' = [frame_idx EXCEPT ![r] = 0]
    /\ UNCHANGED <<db, file, api, svc, incident_id, session, crashed, writes, attempted, thumb, fault>>

\* Mutant of MarkExtractFailed: the return of line 57 is missing, the run
\* falls through to the frame loop.
MarkExtractFailed_NoReturn(r) ==
    /\ pc[r] = "extract_failed"
    /\ r \notin crashed
    /\ CommitStatus(r, FAILED)
    /\ pc' = [pc EXCEPT ![r] = "frames"]
    /\ UNCHANGED <<detected_vehicles, license_plates, file, api, svc, incident_id, frame_idx,
                   session, crashed, extracted, attempted, thumb, fault>>

\* Lines 55-57: extraction raised: status failed, commit, return.
MarkExtractFailed(r) ==
    /\ pc[r] = "extract_failed"
    /\ r \notin crashed
    /\ CommitStatus(r, FAILED)
    /\ pc' = [pc EXCEPT ![r] = "done"]
    /\ UNCHANGED <<detected_vehicles, license_plates, file, api, svc, incident_id, frame_idx,
                   session, crashed, extracted, attempted, thumb, fault>>

\* Mutant of ProcessFrame: no except around the frame (line 143), a raising
\* frame reaches the outer handler.
ProcessFrame_Propagates(r) ==
    /\ pc[r] = "frames"
    /\ r \notin crashed
    /\ frame_idx[r] < Len(video)
    /\ LET fb == FrameBody(session[r], r, incident_id[r], frame_idx[r],
                           video[frame_idx[r] + 1])
       IN /\ session' = [session EXCEPT ![r] = fb.session]
          /\ frame_idx' = [frame_idx EXCEPT ![r] = frame_idx[r] + 1]
          /\ pc' = [pc EXCEPT ![r] = IF fb.raised THEN "handler" ELSE "frames"]
    /\ attempted' = [attempted EXCEPT ![r] = Append(@, frame_idx[r])]
    /\ UNCHANGED <<db, file, api, svc, incident_id, crashed, writes, extracted, thumb, fault>>

\* Mutant of ProcessFrame: an exception raised in a frame ends the task
\* there, without any further write.
ProcessFrame_StopsOnRaise(r) ==
    /\ pc[r] = "frames"
    /\ r \notin crashed
    /\ frame_idx[r] < Len(video)
    /\ LET fb == FrameBody(session[r], r, incident_id[r], frame_idx[r],
                           video[frame_idx[r] + 1])
       IN /\ session' = [session EXCEPT ![r] = fb.session]
          /\ frame_idx' = [frame_idx EXCEPT ![r] = frame_idx[r] + 1]
          /\ pc' = [pc EXCEPT ![r] = IF fb.raised THEN "done" ELSE "frames"]
    /\ attempted' = [attempted EXCEPT ![r] = Append(@, frame_idx[r])]
    /\ UNCHANGED <<db, file, api, svc, incident_id, crashed, writes, extracted, thumb, fault>>

\* Mutant of ProcessFrame: the commit sits inside the loop, each frame's
\* objects are committed as the frame ends.
ProcessFrame_CommitsEachFrame(r) ==
    /\ pc[r] = "frames"
    /\ r \notin crashed
    /\ frame_idx[r] < Len(video)
    /\ LET fb == FrameBody(session[r], r, incident_id[r], frame_idx[r],
                           video[frame_idx[r] + 1])
       IN /\ detected_vehicles' = detected_vehicles \cup
                 {o \in Range(fb.session) : o.table = "detected_vehicles"}
          /\ license_plates' = license_plates \cup
                 {o \in Range(fb.session) : o.table = "license_plates"}
          /\ session' = [session EXCEPT ![r] = fb.session]
          /\ frame_idx' = [frame_idx EXCEPT ![r] = frame_idx[r] + 1]
    /\ attempted' = [attempted EXCEPT ![r] = Append(@, frame_idx[r])]
    /\ UNCHANGED <<incidents, file, api, svc, pc, incident_id, crashed, writes, extracted, thumb,
                   fault>>

\* Lines 60-144: one iteration of the frame loop.
ProcessFrame(r) ==
    /\ pc[r] = "frames"
    /\ r \notin crashed
    /\ frame_idx[r] < Len(video)
    /\ LET fb == FrameBody(session[r], r, incident_id[r], frame_idx[r],
                           video[frame_idx[r] + 1])
       IN /\ session' = [session EXCEPT ![r] = fb.session]
          /\ frame_idx' = [frame_idx EXCEPT
                             ![r] = NextFrameIdx(frame_idx[r], fb.raised, Len(video))]
    /\ attempted' = [attempted EXCEPT ![r] = Append(@, frame_idx[r])]
    /\ UNCHANGED <<db, file, api, svc, pc, incident_id, crashed, writes, extracted, thumb, fault>>

\* The INSERT of the run's rows is refused: their incident is gone and the
\* database enforces the foreign keys of app/models/vehicle.py:13, 28.
Refused(r) ==
    fk_enforced /\ ~Found(incident_id[r]) /\ session[r] # <<>>

\* Lines 146-147: commit all detections, once the loop has ended.
CommitDetections(r) ==
    /\ pc[r] = "frames"
    /\ r \notin crashed
    /\ frame_idx[r] >= Len(video)
    /\ ~Refused(r)
    /\ detected_vehicles' = detected_vehicles \cup
           {o \in Range(session[r]) : o.table = "detected_vehicles"}
    /\ license_plates' = license_plates \cup
           {o \in Range(session[r]) : o.table = "license_plates"}
    /\ session' = [session EXCEPT ![r] = <<>>]
    /\ pc' = [pc EXCEPT ![r] = "thumbnail"]
    /\ UNCHANGED <<incidents, file, api, svc, incident_id, frame_idx, crashed, hist>>

\* video_processor.py:116-137: what generate_thumbnail can do. With no frame
\* to read it raises (line 131); otherwise it may still raise (the file, the
\* output directory).
ThumbnailOutcomes == IF Len(video) = 0 THEN {"raised"} ELSE {"ok", "raised"}

\* Mutant of AfterThumbnail: no except around the thumbnail (line 157), a
\* raising generate_thumbnail reaches the outer handler.
AfterThumbnail_Propagates(outcome) ==
    IF outcome = "raised" THEN "handler" ELSE "complete"

\* Lines 149-158: the thumbnail's try/except: both outcomes go on to line 160.
AfterThumbnail(outcome) == "complete"

\* Lines 149-158: generate the thumbnail.
GenerateThumbnail(r) ==
    /\ pc[r] = "thumbnail"
    /\ r \notin crashed
    /\ \E outcome \in ThumbnailOutcomes :
          /\ thumb' = [thumb EXCEPT ![r] = outcome]
          /\ pc' = [pc EXCEPT ![r] = AfterThumbnail(outcome)]
    /\ UNCHANGED <<db, file, api, svc, incident_id, frame_idx, session, crashed, writes, extracted,
                   attempted, fault>>

\* Lines 160-162: update status to completed.
MarkCompleted(r) ==
    /\ pc[r] = "complete"
    /\ r \notin crashed
    /\ CommitStatus(r, COMPLETED)
    /\ pc' = [pc EXCEPT ![r] = "done"]
    /\ UNCHANGED <<detected_vehicles, license_plates, file, api, svc, incident_id, frame_idx,
                   session, crashed, extracted, attempted, thumb, fault>>

\* Lines 167-175: the outer except: look the incident up again and mark it
\* failed if it is there.
Handler(r) ==
    /\ pc[r] = "handler"
    /\ r \notin crashed
    /\ pc' = [pc EXCEPT ![r] = "done"]
    /\ IF Found(incident_id[r])
       THEN CommitStatus(r, FAILED)
       ELSE UNCHANGED <<incidents, writes>>
    /\ UNCHANGED <<detected_vehicles, license_plates, file, api, svc, incident_id, frame_idx,
                   session, crashed, extracted, attempted, thumb, fault>>

\* ----------------------------------------------------- database errors, crash

\* The database call the run is about to make on its main path.
DbCall(r) ==
    CASE pc[r] = "claim" -> "claim"                                   \* line 40
      [] pc[r] = "extract_failed" -> "mark_failed"                    \* line 56
      [] pc[r] = "frames" /\ frame_idx[r] >= Len(video) -> "rows"     \* line 147
      [] pc[r] = "complete" -> "complete"                             \* line 162
      [] OTHER -> "none"

\* Line 32 raises (the database is unreachable): lines 167-168.
QueryRaises(r, id) ==
    /\ pc[r] = "idle"
    /\ \A q \in Runs : q < r => pc[q] # "idle"
    /\ incident_id' = [incident_id EXCEPT ![r] = id]
    /\ RaiseToHandler(r, "query")
    /\ UNCHANGED <<db, file, api, svc, frame_idx, crashed, writes, extracted, attempted, thumb>>

\* Mutant of CommitRaises: the failure is swallowed where it happens and the
\* run goes on with the next statement.
CommitRaises_Swallowed(r) ==
    /\ r \notin crashed
    /\ DbCall(r) # "none"
    /\ fault' = [fault EXCEPT ![r] = DbCall(r)]
    /\ session' = [session EXCEPT ![r] = <<>>]
    /\ pc' = [pc EXCEPT ![r] = CASE DbCall(r) = "claim" -> "extract"
                                 [] DbCall(r) = "rows" -> "thumbnail"
                                 [] OTHER -> "done"]
    /\ UNCHANGED <<db, file, api, svc, incident_id, frame_idx, crashed, writes, extracted,
                   attempted, thumb>>

\* A db.commit() of the main path raises: lines 167-168.
CommitRaises(r) ==
    /\ r \notin crashed
    /\ DbCall(r) # "none"
    /\ RaiseToHandler(r, DbCall(r))
    /\ UNCHANGED <<db, file, api, svc, incident_id, frame_idx, crashed, writes, extracted,
                   attempted, thumb>>

\* Lines 176-177: the handler's own query or commit raises; caught, logged.
HandlerRaises(r) ==
    /\ pc[r] = "handler"
    /\ r \notin crashed
    /\ pc' = [pc EXCEPT ![r] = "done"]
    /\ UNCHANGED <<db, file, api, svc, incident_id, frame_idx, session, crashed, hist>>

\* The worker process dies (kill, power loss) during the frame loop: the
\* invocation stops where it is and its session, with the objects added so
\* far, is gone. (Anywhere else the session holds nothing to lose, and a dead
\* worker is an invocation that takes no further step, which every behaviour
\* of Spec already allows at every point.)
Crash(r) ==
    /\ pc[r] = "frames"
    /\ r \notin crashed
    /\ crashed' = crashed \cup {r}
    /\ session' = [session EXCEPT ![r] = <<>>]
    /\ UNCHANGED <<db, file, api, svc, pc, incident_id, frame_idx, hist>>

\* The task, as long as the database answers and the worker lives.
TaskStep(r) ==
    \/ \E id \in IncidentIds : QueryIncident(r, id)
    \/ MarkProcessing(r)
    \/ ExtractFrames(r)
    \/ MarkExtractFailed(r)
    \/ ProcessFrame(r)
    \/ CommitDetections(r)
    \/ GenerateThumbnail(r)
    \/ MarkCompleted(r)

NextReliable == \E r \in Runs : TaskStep(r)

Next ==
    \E r \in Runs :
        \/ TaskStep(r)
        \/ Handler(r)
        \/ \E id \in IncidentIds : QueryRaises(r, id)
        \/ CommitRaises(r)
        \/ HandlerRaises(r)
        \/ Crash(r)

\* Every behaviour: database errors and worker crashes included.
Spec == Init /\ [][Next]_vars

\* The behaviours in which no database call raises and no worker dies.
SpecReliable == Init /\ [][NextReliable]_vars

\* ------------------------------------------------- what the properties read

\* The committed rows a run has written (its uuids carry its number).
MyVehicles(r) == {o \in detected_vehicles : o.detection_id[1] = r}
MyPlates(r) == {o \in license_plates : o.plate_id[1] = r}

VehiclesOf(objs) == {o \in objs : o.table = "detected_vehicles"}
PlatesOf(objs) == {o \in objs : o.table = "license_plates"}

\* Lines 60-144 run from frame k up to (not including) frame n on session
\* sess: the session the loop leaves.
RECURSIVE FrameLoop(_, _, _, _, _)
FrameLoop(sess, r, id, k, n) ==
    IF k >= n
    THEN sess
    ELSE FrameLoop(FrameBody(sess, r, id, k, video[k + 1]).session, r, id, k + 1, n)

\* Everything run r adds when its loop walks the first n frames.
AddedUpTo(r, n) == Range(FrameLoop(<<>>, r, incident_id[r], 0, n))
AddedByLoop(r) == AddedUpTo(r, Len(video))

\* The frame indices 0..n-1 in order.
Indices(n) == [i \in 1..n |-> i - 1]

Statuses(r) == Range(writes[r])

\* -------------------------------------------------------------------- C1
\* C1: processing_status changes only along pending->processing,
\* processing->completed and processing->failed, whatever invocations run
\* (repeated and re-delivered ones included); completed and failed are final.
StatusEdges ==
    {<<PENDING, PROCESSING>>, <<PROCESSING, COMPLETED>>, <<PROCESSING, FAILED>>}

C1_StatusStateMachine ==
    [][\A i \in DOMAIN incidents :
          incidents'[i] # incidents[i] => <<incidents[i], incidents'[i]>> \in StatusEdges]_vars

\* -------------------------------------------------------------------- C2
\* C2: a DetectedVehicle or LicensePlate row is committed only while its
\* incident exists and is processing (never while pending, never after
\* completed or failed).
C2_RowsOnlyWhileProcessing ==
    [][/\ \A o \in detected_vehicles' \ detected_vehicles :
             /\ o.incident_id \in DOMAIN incidents
             /\ incidents[o.incident_id] = PROCESSING
       /\ \A o \in license_plates' \ license_plates :
             /\ o.incident_id \in DOMAIN incidents
             /\ incidents[o.incident_id] = PROCESSING]_vars

\* -------------------------------------------------------------------- C3
\* C3: when extract_frames raises, the run writes processing and then failed
\* (pending -> processing -> failed), adds and commits no row, never attempts
\* the thumbnail and never writes completed.
C3_ExtractFailure ==
    \A r \in Runs :
        extracted[r] = "raised" =>
            /\ session[r] = <<>>
            /\ MyVehicles(r) = {} /\ MyPlates(r) = {}
            /\ attempted[r] = <<>>
            /\ thumb[r] = "none"
            /\ COMPLETED \notin Statuses(r)
            /\ writes[r] \in {<<PROCESSING>>, <<PROCESSING, FAILED>>}
            /\ pc[r] \in {"extract_failed", "handler", "done"}
            /\ (pc[r] = "done" /\ fault[r] = "none" => writes[r] = <<PROCESSING, FAILED>>)

\* A first run whose extraction raised has finished: the incident went
\* pending -> processing -> failed and no row exists.
C3_Witness ==
    /\ extracted[1] = "raised" /\ pc[1] = "done" /\ fault[1] = "none"
    /\ pc[2] = "idle"
    /\ incidents["inc1"] = FAILED
    /\ detected_vehicles = {} /\ license_plates = {}

C5_CompletedAfterLoopAndCommit ==
    \A r \in Runs :
        /\ (pc[r] = "complete" \/ COMPLETED \in Statuses(r)) =>
              /\ extracted[r] = "ok"
              /\ attempted[r] = Indices(Len(video))
              /\ session[r] = <<>>
              /\ MyVehicles(r) = VehiclesOf(AddedByLoop(r))
              /\ MyPlates(r) = PlatesOf(AddedByLoop(r))
        /\ (pc[r] = "done" /\ extracted[r] = "ok" /\ fault[r] = "none") =>
              writes[r] = <<PROCESSING, COMPLETED>>

\* A run over two frames without any detection ended completed, no row.
C5_Witness ==
    /\ Len(video) = 2 /\ \A k \in DOMAIN video : video[k] = F_empty
    /\ pc[1] = "done" /\ writes[1] = <<PROCESSING, COMPLETED>>
    /\ attempted[1] = <<0, 1>>
    /\ detected_vehicles = {} /\ license_plates = {}
    /\ incidents["inc1"] = COMPLETED


\* -------------------------------------------------------------------- C6
\* Processing of a frame raises: an exception reaches the except of line 143.
FrameRaises(frame) ==
    \/ frame.det = "raise"
    \/ \E j \in DOMAIN frame.vehicles : frame.vehicles[j].row = "raise"

FailingFrames == {k \in DOMAIN video : FrameRaises(video[k])}

\* The session a loop leaves in which a raising frame contributes nothing.
RECURSIVE IsolatingLoop(_, _, _, _, _)
IsolatingLoop(sess, r, id, k, n) ==
    IF k >= n
    THEN sess
    ELSE IsolatingLoop(IF FrameRaises(video[k + 1])
                       THEN sess
                       ELSE FrameBody(sess, r, id, k, video[k + 1]).session,
                       r, id, k + 1, n)

\* C6: when exactly one frame raises and the others succeed, the run reaches
\* completed, the persisted rows are exactly those of the other frames, and
\* the raising frame contributes no row (also when it raised after some of
\* its rows were added to the session).
C6_FailingFrameContributesNothing ==
    \A r \in Runs :
        (Cardinality(FailingFrames) = 1 /\ extracted[r] = "ok" /\ pc[r] = "done") =>
            /\ writes[r] = <<PROCESSING, COMPLETED>>
            /\ \A o \in MyVehicles(r) \cup MyPlates(r) :
                   o.frame_timestamp + 1 \notin FailingFrames
            /\ MyVehicles(r) \cup MyPlates(r) =
                   Range(IsolatingLoop(<<>>, r, incident_id[r], 0, Len(video)))

\* -------------------------------------------------------------------- C7
MyRows(r) == MyVehicles(r) \cup MyPlates(r)
AtFrame(objs, k) == {o \in objs : o.frame_timestamp = k}

Objects(r) == Range(session[r]) \cup MyRows(r)

\* Run r still holds the objects of the frames it has processed.
Holding(r) ==
    \/ pc[r] = "frames" /\ r \notin crashed
    \/ pc[r] \in {"thumbnail", "complete"}
    \/ COMPLETED \in Statuses(r)

IsText(x) == x # NoRead /\ x # Raise

\* The valid reads of a frame: on vehicle crops, and on located regions (the
\* regions before a raising one).
CropReads(frame) == {j \in DOMAIN frame.vehicles : IsText(frame.vehicles[j].plate)}
RegionReads(frame) ==
    IF frame.loc = "raise"
    THEN {}
    ELSE {j \in DOMAIN frame.hits :
             IsText(frame.hits[j]) /\ \A i \in 1..(j - 1) : frame.hits[i] # Raise}

\* C8: a valid read on a vehicle's crop is a LicensePlate row whose
\* detection_id is that of the DetectedVehicle row of the same detection; a
\* valid read on a located region is a LicensePlate row with detection_id
\* null; both paths run on every frame (that does not raise) and nothing is
\* deduplicated: one vehicle plate and one locator hit give two rows.
C8_PlateAssociation ==
    \A r \in Runs : Holding(r) =>
        \A k \in Range(attempted[r]) :
            LET frame == video[k + 1]
                vehicles == AtFrame(VehiclesOf(Objects(r)), k)
                plates == AtFrame(PlatesOf(Objects(r)), k)
                tied == {p \in plates : p.detection_id # NULL}
                loose == {p \in plates : p.detection_id = NULL}
            IN /\ \A p \in tied :
                      \E dv \in vehicles :
                          /\ dv.detection_id = p.detection_id
                          /\ dv.incident_id = p.incident_id
                          /\ \E j \in CropReads(frame) :
                                /\ frame.vehicles[j].vehicle_type = dv.vehicle_type
                                /\ frame.vehicles[j].plate = p.plate_number
               /\ \A p, q \in tied : p.detection_id = q.detection_id => p = q
               /\ \A p \in loose :
                      \E j \in RegionReads(frame) : frame.hits[j] = p.plate_number
               /\ ~FrameRaises(frame) =>
                      /\ Cardinality(vehicles) = Len(frame.vehicles)
                      /\ Cardinality(tied) = Cardinality(CropReads(frame))
                      /\ Cardinality(loose) = Cardinality(RegionReads(frame))

\* A committed frame with one car whose crop reads ABC123 and one located
\* region reading ABC123: two LicensePlate rows, one tied to the car's row,
\* one with detection_id null.
C8_Witness ==
    \E r \in Runs : \E k \in DOMAIN video :
        /\ video[k] = F_both
        /\ COMPLETED \in Statuses(r)
        /\ LET plates == AtFrame(MyPlates(r), k - 1)
           IN /\ Cardinality(plates) = 2
              /\ \A p \in plates : p.plate_number = "ABC123"
              /\ \E p \in plates : p.detection_id = NULL
              /\ \E p \in plates : \E dv \in AtFrame(MyVehicles(r), k - 1) :
                     p.detection_id = dv.detection_id /\ dv.vehicle_type = "car"

\* -------------------------------------------------------------------- C9
\* C9: an invocation whose incident id resolves to no incident ends without
\* writing any processing_status, without adding or committing any row, and
\* without extracting frames, running the loop or trying the thumbnail.
C9_NotFoundChangesNothing ==
    \A r \in Runs :
        (pc[r] # "idle" /\ incident_id[r] \notin DOMAIN incidents) =>
            /\ writes[r] = <<>>
            /\ session[r] = <<>> /\ MyRows(r) = {}
            /\ extracted[r] = "none" /\ attempted[r] = <<>> /\ thumb[r] = "none"
            /\ pc[r] \in {"done", "handler"}
            /\ pc[r] = "handler" => fault[r] = "query"

\* An invocation for an unknown id has ended, the stored incident untouched.
C9_Witness ==
    \E r \in Runs :
        /\ pc[r] = "done" /\ incident_id[r] = "ghost" /\ fault[r] = "none"
        /\ incidents = [i \in {"inc1"} |-> PENDING]
        /\ detected_vehicles = {} /\ license_plates = {}

\* ------------------------------------------------------------------- C10
\* C10: the thumbnail is attempted only after the frame loop has ended and
\* before completed is written, and its outcome changes neither the status
\* the run ends with nor its persisted rows.
C10_ThumbnailBestEffort ==
    \A r \in Runs :
        /\ thumb[r] # "none" =>
              /\ extracted[r] = "ok"
              /\ attempted[r] = Indices(Len(video))
              /\ pc[r] \in {"complete", "handler", "done"}
              /\ pc[r] = "handler" => fault[r] = "complete"
              /\ MyRows(r) = AddedByLoop(r)
        /\ pc[r] = "thumbnail" => COMPLETED \notin Statuses(r)
        /\ COMPLETED \in Statuses(r) => thumb[r] # "none"
        /\ (thumb[r] # "none" /\ pc[r] = "done" /\ fault[r] = "none") =>
              writes[r] = <<PROCESSING, COMPLETED>>

\* Two finished runs, one whose thumbnail was written and one whose
\* thumbnail raised: the same status writes, and each with all its rows.
C10_Witness ==
    \E r1, r2 \in Runs :
        /\ thumb[r1] = "ok" /\ thumb[r2] = "raised"
        /\ pc[r1] = "done" /\ pc[r2] = "done"
        /\ writes[r1] = <<PROCESSING, COMPLETED>> /\ writes[r2] = writes[r1]
        /\ MyRows(r1) # {} /\ MyRows(r2) # {}
        /\ Cardinality(MyRows(r1)) = Cardinality(MyRows(r2))

\* ------------------------------------------------------------------- C11
\* What a row says about the video: the frame, and the vehicle type or the
\* plate text (the identifiers drawn by uuid4 are not part of a detection).
Detection(o) ==
    IF o.table = "detected_vehicles"
    THEN <<o.frame_timestamp, "vehicle", o.vehicle_type>>
    ELSE <<o.frame_timestamp, "plate", o.plate_number>>

\* Two different invocations on the same incident have both ended completed.
RanTwice(r1, r2) ==
    /\ r1 # r2 /\ incident_id[r1] = incident_id[r2]
    /\ pc[r1] = "done" /\ writes[r1] = <<PROCESSING, COMPLETED>>
    /\ pc[r2] = "done" /\ writes[r2] = <<PROCESSING, COMPLETED>>

\* C11: running process_incident_video twice on the same incident (same
\* frames, deterministic detector and OCR) leaves the incident's detections
\* as they were after the first run: the same detections, none duplicated
\* and none lost.
C11_Idempotent ==
    \A r1, r2 \in Runs :
        RanTwice(r1, r2) =>
            /\ {Detection(o) : o \in detected_vehicles \cup license_plates} =
                   {Detection(o) : o \in AddedByLoop(r1)}
            /\ Cardinality(detected_vehicles) = Cardinality(VehiclesOf(AddedByLoop(r1)))
            /\ Cardinality(license_plates) = Cardinality(PlatesOf(AddedByLoop(r1)))

\* ------------------------------------------------------------------- C12
\* The invocations that have marked the incident processing (line 40) and
\* are between that write and their last status write.
InPipeline(id) ==
    {r \in Runs : /\ incident_id[r] = id
                  /\ pc[r] \in {"extract", "extract_failed", "frames",
                                "thumbnail", "complete"}}

\* C12: claiming an incident is atomic with the write of processing: of two
\* interleaved invocations for the same incident at most one gets past the
\* claim and runs the pipeline.
C12_AtomicClaim ==
    \A id \in IncidentIds : Cardinality(InPipeline(id)) <= 1

\* =========================================================== the HTTP API
\* app/api/v1/endpoints/incidents.py, mounted under /incidents
\* (app/api/v1/router.py:13). Every request is made by an authenticated user.

\* Requests served in one behaviour.
MaxRequests == 3

\* IncidentType (app/models/incident.py:10-16).
IncidentType == {"crash", "police", "road_rage", "hazard", "other"}

\* settings.MAX_VIDEO_SIZE_MB (app/core/config.py:43).
MAX_VIDEO_SIZE_MB == 500

\* str(uuid.uuid4()) of line 110: the key drawn by the k-th request served.
ReportIds == <<"inc2", "inc3", "inc4", "inc5", "inc6">>

NoForm == [none |-> TRUE]
NoParams == [none |-> TRUE]

\* A well-formed report, and the reports that differ from it in one field.
\* timestamp: whether the string parses as ISO 8601, and the hour it names.
GoodForm ==
    [type |-> "crash", timestamp |-> [iso |-> TRUE, hour |-> Now],
     content_type |-> "video/mp4", video_size_mb |-> 1,
     latitude |-> 37, longitude |-> -122]

ReportForms ==
    {GoodForm,
     [GoodForm EXCEPT !.type = "bogus"],
     [GoodForm EXCEPT !.timestamp = [iso |-> FALSE, hour |-> 0]],
     [GoodForm EXCEPT !.timestamp = [iso |-> TRUE, hour |-> Now - 48]],
     [GoodForm EXCEPT !.content_type = "text/plain"],
     [GoodForm EXCEPT !.video_size_mb = MAX_VIDEO_SIZE_MB + 1],
     [GoodForm EXCEPT !.latitude = 999],
     [GoodForm EXCEPT !.longitude = 200]}

\* The query parameters of a nearby search (time_window_hours at its default).
NearbyParams ==
    {[latitude |-> c[1], longitude |-> c[2], radius_km |-> km, time_window_hours |-> 24] :
        c \in {<<37, -122>>, <<0, 0>>}, km \in {10, 5000}}

\* haversine_distance (lines 24-47) in whole kilometres, on the places used
\* here: the value the formula gives for each pair (it is symmetric, and 0
\* for a place and itself).
KmTable ==
    {<<<<37, -122>>, <<999, -122>>, 13121>>,
     <<<<37, -122>>, <<37, 200>>, 3351>>,
     <<<<37, -122>>, <<0, 0>>, 12791>>,
     <<<<0, 0>>, <<999, -122>>, 10536>>,
     <<<<0, 0>>, <<37, 200>>, 15415>>,
     <<<<999, -122>>, <<37, 200>>, 13313>>}

haversine_distance(lat1, lon1, lat2, lon2) ==
    IF <<lat1, lon1>> = <<lat2, lon2>>
    THEN 0
    ELSE (CHOOSE t \in KmTable : {t[1], t[2]} = {<<lat1, lon1>>, <<lat2, lon2>>})[3]

\* The routes of the incidents router in the order their decorators run
\* (lines 50, 161, 193, 260): the order in which a request is matched.
Routes ==
    <<[method |-> "POST", path |-> "report", endpoint |-> "report_incident"],
      [method |-> "GET", path |-> "{incident_id}", endpoint |-> "get_incident"],
      [method |-> "GET", path |-> "nearby", endpoint |-> "get_nearby_incidents"],
      [method |-> "DELETE", path |-> "{incident_id}", endpoint |-> "delete_incident"]>>

\* A route matches a one-segment path when the methods agree and its path is
\* that segment or a path parameter (which takes any segment).
Matches(route, method, seg) ==
    /\ route.method = method
    /\ route.path = seg \/ route.path = "{incident_id}"

\* Dispatch: the first route, in registration order, that matches.
Route(method, seg) ==
    LET hits == {k \in DOMAIN Routes : Matches(Routes[k], method, seg)}
    IN IF hits = {}
       THEN "none"
       ELSE Routes[CHOOSE k \in hits : \A j \in hits : k <= j].endpoint

\* Lines 161-190: get_incident.
get_incident(id) ==
    IF id \in DOMAIN incidents
    THEN [endpoint |-> "get_incident", status_code |-> 200,
          body |-> [incident_id |-> id, processing_status |-> incidents[id]]]
    ELSE [endpoint |-> "get_incident", status_code |-> 404, body |-> "Incident not found"]

\* Lines 218-243: the stored incidents inside the time window and the radius.
NearbyIds(params) ==
    {i \in DOMAIN incidents :
        /\ details[i].timestamp >= Now - params.time_window_hours
        /\ haversine_distance(params.latitude, params.longitude,
                              details[i].latitude, details[i].longitude)
               <= params.radius_km}

\* Lines 254-257: the incidents of ids, nearest first.
RECURSIVE SortByDistance(_, _)
SortByDistance(ids, params) ==
    IF ids = {}
    THEN <<>>
    ELSE LET km(i) == haversine_distance(params.latitude, params.longitude,
                                         details[i].latitude, details[i].longitude)
             first == CHOOSE i \in ids : \A j \in ids : km(i) <= km(j)
         IN <<[incident_id |-> first, distance_km |-> km(first)]>>
                \o SortByDistance(ids \ {first}, params)

\* Lines 193-257: get_nearby_incidents.
get_nearby_incidents(params) ==
    [endpoint |-> "get_nearby_incidents", status_code |-> 200,
     body |-> SortByDistance(NearbyIds(params), params)]

Served(method, path, user, form, params) ==
    request' = [n |-> request.n + 1, method |-> method, path |-> path, user |-> user,
                form |-> form, params |-> params]

\* Mutant of Enqueued: the task is sent before the incident is committed.
Enqueued_BeforeCommit(id, committed) == Append(queue, id)

\* Line 156: process_incident_video.delay(incident_id) comes after the
\* db.commit() of line 152, so it runs only when the commit has succeeded.
Enqueued(id, committed) == IF committed THEN Append(queue, id) ELSE queue

\* Lines 85-129: the status report_incident rejects a form with, 0 when it
\* accepts it.
Rejected(form) ==
    CASE form.type \notin IncidentType -> 400           \* lines 85-91
      [] ~form.timestamp.iso -> 400                      \* lines 94-100
      [] form.content_type # "video/mp4" -> 400          \* lines 103-107
      [] form.video_size_mb > MAX_VIDEO_SIZE_MB -> 413   \* lines 125-129
      [] OTHER -> 0

\* Lines 50-158: report_incident, the database answering.
ReportIncident(user, form) ==
    /\ request.n < MaxRequests
    /\ Served("POST", "report", user, form, NoParams)
    /\ LET id == ReportIds[request.n + 1]
           rejected == Rejected(form)
       IN IF rejected # 0
          THEN /\ response' = [endpoint |-> "report_incident", status_code |-> rejected,
                               body |-> "rejected"]
               /\ UNCHANGED <<incidents, details, files, queue>>
          ELSE /\ files' = files \cup {id}                          \* lines 131-132
               /\ incidents' = incidents @@ (id :> PENDING)          \* lines 135-153
               /\ details' = details @@
                      (id :> Incident(user, form.latitude, form.longitude,
                                      form.timestamp.hour))
               /\ queue' = Enqueued(id, TRUE)                        \* line 156
               /\ response' = [endpoint |-> "report_incident", status_code |-> 201,
                               body |-> [incident_id |-> id,
                                         processing_status |-> PENDING]]
    /\ UNCHANGED <<detected_vehicles, license_plates, file, fk_enforced, deleted, accounts,
                   task, hist, svc>>

\* Lines 50-152: report_incident on a form it accepts, the db.commit() of
\* line 152 raising (an unhandled error, status 500): the video file is
\* written already, no incident is stored and line 156 is not reached.
ReportCommitRaises(user, form) ==
    /\ request.n < MaxRequests
    /\ Rejected(form) = 0
    /\ Served("POST", "report", user, form, NoParams)
    /\ LET id == ReportIds[request.n + 1]
       IN /\ files' = files \cup {id}
          /\ queue' = Enqueued(id, FALSE)
    /\ response' = [endpoint |-> "report_incident", status_code |-> 500,
                    body |-> "Internal Server Error"]
    /\ UNCHANGED <<db, details, file, fk_enforced, deleted, accounts, task, hist, svc>>

\* A GET of /incidents/<seg>: dispatched, then served by the endpoint found.
GetRequest(user, seg, params) ==
    /\ request.n < MaxRequests
    /\ Served("GET", seg, user, NoForm, params)
    /\ response' = IF Route("GET", seg) = "get_nearby_incidents"
                   THEN get_nearby_incidents(params)
                   ELSE get_incident(seg)
    /\ UNCHANGED <<db, file, details, files, queue, fk_enforced, deleted, accounts,
                   task, hist, svc>>

\* Mutant of Forbidden: the ownership test is missing.
Forbidden_Never(id, user) == FALSE

\* Line 290: the incident is not the caller's.
Forbidden(id, user) == details[id].user_id # user

\* Rows that reference the incident.
RowsOf(id) == {o \in detected_vehicles \cup license_plates : o.incident_id = id}

\* Lines 260-314: delete_incident. os.remove may fail (the error is logged,
\* line 306-308). The models define no cascade and the foreign keys no ON
\* DELETE (app/models/vehicle.py:13, 28): the rows of the incident are not
\* deleted with it; an engine that enforces foreign keys refuses the DELETE
\* while they exist, and db.commit() raises (an unhandled error, status 500).
DeleteIncident(user, id) ==
    /\ request.n < MaxRequests
    /\ Served("DELETE", id, user, NoForm, NoParams)
    /\ IF id \notin DOMAIN incidents
       THEN /\ response' = [endpoint |-> "delete_incident", status_code |-> 404,
                            body |-> "Incident not found"]
            /\ UNCHANGED <<incidents, details, files, video_ok, deleted>>
       ELSE IF Forbidden(id, user)
       THEN /\ response' = [endpoint |-> "delete_incident", status_code |-> 403,
                            body |-> "You can only delete your own incidents"]
            /\ UNCHANGED <<incidents, details, files, video_ok, deleted>>
       ELSE /\ \E removed \in BOOLEAN :
                  /\ files' = IF removed THEN files \ {id} ELSE files
                  /\ video_ok' = IF removed /\ id = "inc1" THEN FALSE ELSE video_ok
            /\ IF fk_enforced /\ RowsOf(id) # {}
               THEN /\ response' = [endpoint |-> "delete_incident", status_code |-> 500,
                                    body |-> "Internal Server Error"]
                    /\ UNCHANGED <<incidents, details, deleted>>
               ELSE /\ incidents' = [i \in DOMAIN incidents \ {id} |-> incidents[i]]
                    /\ details' = [i \in DOMAIN details \ {id} |-> details[i]]
                    /\ deleted' = deleted \cup {id}
                    /\ response' = [endpoint |-> "delete_incident", status_code |-> 200,
                                    body |-> "Incident deleted successfully"]
    /\ UNCHANGED <<detected_vehicles, license_plates, video, queue, fk_enforced,
                   accounts, task, hist, svc>>

\* The API is started on a store that holds alice's incident inc1 with its
\* video, either still pending or completed by a run over a one-frame video
\* (a car with its plate, and a located plate).
InitApi ==
    /\ video_ok = TRUE /\ video = <<F_both>>
    /\ details = [i \in {"inc1"} |-> Incident("alice", 37, -122, Now)]
    /\ files = {"inc1"}
    /\ fk_enforced \in BOOLEAN
    /\ \/ /\ incidents = [i \in {"inc1"} |-> PENDING]
          /\ detected_vehicles = {} /\ license_plates = {}
       \/ /\ incidents = [i \in {"inc1"} |-> COMPLETED]
          /\ detected_vehicles =
                 VehiclesOf(Range(FrameBody(<<>>, 1, "inc1", 0, F_both).session))
          /\ license_plates =
                 PlatesOf(Range(FrameBody(<<>>, 1, "inc1", 0, F_both).session))
    /\ TasksIdle
    /\ ApiIdle
    /\ AccountsIdle
    /\ ServicesIdle

NextApi ==
    \E user \in Users :
        \/ \E form \in ReportForms : ReportIncident(user, form)
        \/ \E seg \in DOMAIN incidents \cup {"ghost", "nearby"} :
              \E params \in (IF seg = "nearby" THEN NearbyParams ELSE {NoParams}) :
                  GetRequest(user, seg, params)
        \/ \E id \in DOMAIN incidents \cup {"ghost"} : DeleteIncident(user, id)

\* The API alone: requests served one after the other, no task running.
SpecApi == InitApi /\ [][NextApi]_vars

\* A request has just been served by this step.
Serving == request'.n # request.n

\* ------------------------------------------------------------------- C17
\* C17: GET /incidents/nearby with valid latitude, longitude and radius_km
\* is served by get_nearby_incidents (not by get_incident with incident_id
\* "nearby") and answers 200 with the list of exactly the stored incidents
\* inside the radius and the time window (the empty list when there is none).
C17_NearbyDispatched ==
    (request.method = "GET" /\ request.path = "nearby") =>
        /\ response.endpoint = "get_nearby_incidents"
        /\ response.status_code = 200
        /\ {b.incident_id : b \in Range(response.body)} = NearbyIds(request.params)

\* ------------------------------------------------------------------- C18
ValidCoordinates(form) ==
    /\ form.latitude >= -90 /\ form.latitude <= 90
    /\ form.longitude >= -180 /\ form.longitude <= 180

\* C18: a report whose latitude is outside [-90, 90] or whose longitude is
\* outside [-180, 180] is answered 400 or 422, and creates no incident
\* record, stores no video and enqueues no task.
C18_InvalidCoordinatesRejected ==
    [][(Serving /\ request'.method = "POST" /\ ~ValidCoordinates(request'.form)) =>
          /\ response'.status_code \in {400, 422}
          /\ UNCHANGED <<incidents, details, files, queue>>]_vars

\* ------------------------------------------------------------------- C19
\* C19: after delete_incident has succeeded for an incident, the incident
\* does not exist (a get of its id answers 404) and no DetectedVehicle or
\* LicensePlate row references its id.
C19_DeleteRemovesEverything ==
    (request.method = "DELETE" /\ response.status_code = 200) =>
        /\ request.path \notin DOMAIN incidents
        /\ get_incident(request.path).status_code = 404
        /\ RowsOf(request.path) = {}

\* ------------------------------------------------------------------- C20
\* C20: delete_incident called by a user who does not own the incident
\* answers 403 and changes neither the incident record, nor its video file,
\* nor its rows: nothing destructive happens before the ownership test.
C20_OnlyOwnerDeletes ==
    [][(/\ Serving /\ request'.method = "DELETE"
        /\ request'.path \in DOMAIN incidents
        /\ details[request'.path].user_id # request'.user) =>
          /\ response'.status_code = 403
          /\ UNCHANGED <<incidents, details, files, video_ok, video,
                         detected_vehicles, license_plates>>]_vars

\* bob has asked to delete alice's completed incident: 403, and the
\* incident, its video file and its rows are all still there.
C20_Witness ==
    /\ request.method = "DELETE" /\ request.path = "inc1" /\ request.user = "bob"
    /\ response.status_code = 403
    /\ "inc1" \in DOMAIN incidents /\ details["inc1"].user_id = "alice"
    /\ "inc1" \in files /\ video_ok
    /\ RowsOf("inc1") # {}

\* ==================================================== the service functions
\* app/services: the functions the task calls on a video, a frame or a crop,
\* each modelled as the function of its arguments that the code computes.

\* Python None as a return value.
None == [none |-> TRUE]

\* Most frames a video decodes to.
MaxDecoded == 6
\* Highest source rate numerator and target rate.
MaxRate == 6
\* Most boxes the detector backend, or regions the text detector, reports
\* on a frame.
MaxBoxes == 2

\* -------------------------------------------- VideoProcessor.extract_frames
\* A source rate video_fps (cv2 reports a float) is the fraction num/den.
SourceRates == {[num |-> n, den |-> d] : n \in 0..MaxRate, d \in {1, 2}}
TargetRates == 1..(MaxRate \div 2)

\* Mutant of FrameInterval: the quotient is rounded up.
FrameInterval_Ceil(video_fps, fps) ==
    IF fps * video_fps.den < video_fps.num
    THEN (video_fps.num + video_fps.den * fps - 1) \div (video_fps.den * fps)
    ELSE 1

\* video_processor.py:37: int(video_fps / fps) if fps < video_fps else 1
\* (int truncates; the quotient is positive here).
FrameInterval(video_fps, fps) ==
    IF fps * video_fps.den < video_fps.num
    THEN video_fps.num \div (video_fps.den * fps)
    ELSE 1

\* video_processor.py:39-48: the read loop over the decoded frames.
RECURSIVE ReadLoop(_, _, _, _)
ReadLoop(decoded, frame_count, frame_interval, frames) ==
    IF frame_count >= Len(decoded)
    THEN frames
    ELSE ReadLoop(decoded, frame_count + 1, frame_interval,
                  IF frame_count % frame_interval = 0
                  THEN Append(frames, decoded[frame_count + 1])
                  ELSE frames)

\* video_processor.py:35-51, for a file that opens. decoded[k + 1] is the
\* k-th decoded frame.
extract_frames(decoded, video_fps, fps) ==
    ReadLoop(decoded, 0, FrameInterval(video_fps, fps), <<>>)

ExtractFramesCall(total_frames, video_fps, fps) ==
    /\ service_call.fn = "none"
    /\ service_call' =
           [fn |-> "extract_frames", total_frames |-> total_frames,
                  video_fps |-> video_fps, fps |-> fps,
            returned |-> extract_frames(Indices(total_frames), video_fps, fps)]
    /\ UNCHANGED <<db, file, api, task, hist>>

\* ------------------------------------------------ MLDetector.detect_vehicles
\* ml_detector.py:22-27
VEHICLE_CLASSES == (2 :> "car") @@ (3 :> "motorcycle") @@ (5 :> "bus") @@ (7 :> "truck")

\* A box of the backend's result: its class id, its confidence in percent,
\* and whether reading it raises (lines 69-95 are inside the try of line 62).
Box(cls, conf, raises) == [cls |-> cls, conf |-> conf, raises |-> raises]

Boxes ==
    {Box(c, p, FALSE) : c \in {0, 2, 3, 5, 7}, p \in {49, 50, 51}}
        \cup {Box(2, 90, TRUE)}

RECURSIVE SeqsUpTo(_, _)
SeqsUpTo(S, n) ==
    IF n = 0
    THEN {<<>>}
    ELSE LET shorter == SeqsUpTo(S, n - 1)
         IN shorter \cup {Append(q, x) : q \in shorter, x \in S}

\* Mutant of Keeps: the confidence must exceed the threshold.
Keeps_Strict(box, confidence_threshold) ==
    box.cls \in DOMAIN VEHICLE_CLASSES /\ box.conf > confidence_threshold

\* ml_detector.py:75
Keeps(box, confidence_threshold) ==
    box.cls \in DOMAIN VEHICLE_CLASSES /\ box.conf >= confidence_threshold

\* ml_detector.py:67-95: the loop over the boxes; an exception ends it and
\* lines 97-100 return the detections appended so far.
RECURSIVE BoxLoop(_, _, _)
BoxLoop(boxes, confidence_threshold, detections) ==
    IF boxes = <<>> \/ Head(boxes).raises
    THEN detections
    ELSE BoxLoop(Tail(boxes), confidence_threshold,
                 IF Keeps(Head(boxes), confidence_threshold)
                 THEN Append(detections,
                             [vehicle_type |-> VEHICLE_CLASSES[Head(boxes).cls],
                              confidence |-> Head(boxes).conf])
                 ELSE detections)

\* ml_detector.py:45-100. model_loaded: self.model is not None.
detect_vehicles(model_loaded, boxes, confidence_threshold) ==
    IF ~model_loaded THEN <<>> ELSE BoxLoop(boxes, confidence_threshold, <<>>)

DetectVehiclesCall(model_loaded, boxes, confidence_threshold) ==
    /\ service_call.fn = "none"
    /\ service_call' =
           [fn |-> "detect_vehicles", model_loaded |-> model_loaded,
                  boxes |-> boxes, confidence_threshold |-> confidence_threshold,
            returned |-> detect_vehicles(model_loaded, boxes, confidence_threshold)]
    /\ UNCHANGED <<db, file, api, task, hist>>

\* ------------------------------------------------- OCRService.read_plate_text
\* Characters a read can contain: a capital, a small letter, a digit, a
\* space and a hyphen. A text is a sequence of characters.
Chars == {"A", "b", "7", " ", "-"}

IsCapital(c) == c \in {"A", "B"}
IsDigit(c) == c = "7"

\* c repeated n times.
Pad(c, n) == [i \in 1..n |-> c]

\* The texts read: every text of up to three characters, followed by up to
\* ten capitals or ten digits.
Texts ==
    {q \o Pad(c, n) : q \in SeqsUpTo(Chars, 3), c \in {"A", "7"}, n \in 0..10}

\* str.upper()
Upper(text) == [i \in DOMAIN text |-> IF text[i] = "b" THEN "B" ELSE text[i]]

\* str.replace(c, "")
RECURSIVE Without(_, _)
Without(text, c) ==
    IF text = <<>>
    THEN <<>>
    ELSE (IF Head(text) = c THEN <<>> ELSE <<Head(text)>>) \o Without(Tail(text), c)

\* ocr_service.py:115: text.upper().replace(" ", "").replace("-", "")
Clean(text) == Without(Without(Upper(text), " "), "-")

\* re.match of ^[A-Z]{a,b}[0-9]{c,d}$ : a to b capitals, then c to d digits.
LettersThenDigits(text, a, b, c, d) ==
    \E k \in a..b :
        /\ Len(text) - k \in c..d
        /\ \A i \in 1..k : IsCapital(text[i])
        /\ \A i \in (k + 1)..Len(text) : IsDigit(text[i])

\* re.match of ^[0-9]{3}[A-Z]{3}$
DigitsThenLetters(text) ==
    /\ Len(text) = 6
    /\ \A i \in 1..3 : IsDigit(text[i])
    /\ \A i \in 4..6 : IsCapital(text[i])

\* re.match of ^[A-Z0-9]{5,8}$
GenericAlphanumeric(text) ==
    /\ Len(text) \in 5..8
    /\ \A i \in DOMAIN text : IsCapital(text[i]) \/ IsDigit(text[i])

\* ocr_service.py:141-177
validate_plate_format(text) ==
    IF Len(text) < 2 \/ Len(text) > 10                                  \* line 151
    THEN FALSE
    ELSE IF ~\E i \in DOMAIN text : IsCapital(text[i]) \/ IsDigit(text[i])  \* line 155
    THEN FALSE
    ELSE IF ~\E i \in DOMAIN text : IsDigit(text[i])                    \* line 159
    THEN FALSE
    ELSE IF \/ LettersThenDigits(text, 2, 3, 3, 4)                      \* lines 163-171
            \/ DigitsThenLetters(text)
            \/ GenericAlphanumeric(text)
    THEN TRUE
    ELSE /\ \E i \in DOMAIN text : IsCapital(text[i])                   \* lines 174-177
         /\ \E i \in DOMAIN text : IsDigit(text[i])

\* ocr_service.py:110: max(results, key=lambda x: x[2]): the first result
\* among those of the highest confidence.
BestResult(results) ==
    results[CHOOSE k \in DOMAIN results :
                /\ \A j \in DOMAIN results : results[j].confidence <= results[k].confidence
                /\ \A j \in 1..(k - 1) : results[j].confidence < results[k].confidence]

\* Mutant of read_plate_text: when the best result fails the validation the
\* best of the other results is tried.
RECURSIVE read_plate_text_Fallback(_, _)
read_plate_text_Fallback(reader_ok, results) ==
    IF ~reader_ok \/ results = <<>>
    THEN None
    ELSE LET best == BestResult(results)
             text == Clean(best.text)
         IN IF validate_plate_format(text)
            THEN [plate_number |-> text, confidence |-> best.confidence]
            ELSE read_plate_text_Fallback(reader_ok, SelectSeq(results, LAMBDA x : x # best))

\* ocr_service.py:89-139. reader_ok: self.reader is not None; results: what
\* readtext returns on the crop (a non-empty crop).
read_plate_text(reader_ok, results) ==
    IF ~reader_ok \/ results = <<>>
    THEN None
    ELSE LET best == BestResult(results)
             text == Clean(best.text)
         IN IF validate_plate_format(text)
            THEN [plate_number |-> text, confidence |-> best.confidence]
            ELSE None

\* The results of one read: nothing, one text, or a valid text together
\* with another result of lower, equal or higher confidence.
OcrResults ==
    {<<>>}
        \cup {<<[text |-> t, confidence |-> 90]>> : t \in Texts}
        \cup {<<[text |-> <<"A", "A", "7", "7", "7">>, confidence |-> 70],
                [text |-> t, confidence |-> p]>> :
                  t \in {<<"b", "-", "7">>, <<"A", "A">>}, p \in {50, 70, 90}}

ReadPlateTextCall(reader_ok, results) ==
    /\ service_call.fn = "none"
    /\ service_call' =
           [fn |-> "read_plate_text", reader_ok |-> reader_ok, results |-> results,
            returned |-> read_plate_text(reader_ok, results)]
    /\ UNCHANGED <<db, file, api, task, hist>>

\* --------------------------------------------- MLDetector.detect_vehicle_color
\* Channel averages considered.
Levels == {0, 10, 50, 60, 100, 120, 150, 180, 200, 210, 215, 220}

\* ml_detector.py:141-159: the classification of the average colour; the
\* three averages are taken in the order of the array's channels.
ClassifyAverage(avg_color) ==
    LET r == avg_color[1]
        g == avg_color[2]
        b == avg_color[3]
    IN CASE r > 200 /\ g > 200 /\ b > 200 -> "white"
         [] r < 50 /\ g < 50 /\ b < 50 -> "black"
         [] r > 150 /\ g < 100 /\ b < 100 -> "red"
         [] r < 100 /\ g > 150 /\ b < 100 -> "green"
         [] r < 100 /\ g < 100 /\ b > 150 -> "blue"
         [] r > 150 /\ g > 150 /\ b < 100 -> "yellow"
         [] r > 100 /\ g > 100 /\ b > 100 -> "gray"
         [] OTHER -> "other"

\* ml_detector.py:116-161. A crop is seen through its size, its number of
\* dimensions and the average of the pixels kept by cropped_image[::4, ::4].
detect_vehicle_color(cropped_image) ==
    IF cropped_image.size = 0
    THEN "unknown"
    ELSE IF cropped_image.ndim = 3
    THEN ClassifyAverage(cropped_image.avg_color)
    ELSE "unknown"

Crops ==
    {[size |-> 48, ndim |-> 3, avg_color |-> <<r, g, b>>] : r, g, b \in Levels}
        \cup {[size |-> 0, ndim |-> 3, avg_color |-> <<0, 0, 0>>],
              [size |-> 48, ndim |-> 2, avg_color |-> <<0, 0, 0>>]}

DetectVehicleColorCall(cropped_image) ==
    /\ service_call.fn = "none"
    /\ service_call' =
           [fn |-> "detect_vehicle_color", cropped_image |-> cropped_image,
            returned |-> detect_vehicle_color(cropped_image)]
    /\ UNCHANGED <<db, file, api, task, hist>>

\* ---------------------------------------------- OCRService.detect_license_plate
\* A text region reader.detect reports: its probability in percent, and
\* whether converting its box raises (lines 67-82 are inside the try of
\* line 57).
Region(prob, raises) == [prob |-> prob, raises |-> raises]

Regions == {Region(p, FALSE) : p \in {49, 50, 51}} \cup {Region(90, TRUE)}

\* ocr_service.py:67: if prob > 0.5
Passes(region) == region.prob > 50

\* ocr_service.py:66-82: the loop over the regions; an exception ends it and
\* lines 84-87 return the detections appended so far.
RECURSIVE RegionLoop(_, _)
RegionLoop(regions, detections) ==
    IF regions = <<>> \/ Head(regions).raises
    THEN detections
    ELSE RegionLoop(Tail(regions),
                    IF Passes(Head(regions))
                    THEN Append(detections, [confidence |-> Head(regions).prob])
                    ELSE detections)

\* ocr_service.py:39-87. reader_ok: self.reader is not None.
detect_license_plate(reader_ok, regions) ==
    IF ~reader_ok THEN <<>> ELSE RegionLoop(regions, <<>>)

DetectLicensePlateCall(reader_ok, regions) ==
    /\ service_call.fn = "none"
    /\ service_call' =
           [fn |-> "detect_license_plate", reader_ok |-> reader_ok, regions |-> regions,
            returned |-> detect_license_plate(reader_ok, regions)]
    /\ UNCHANGED <<db, file, api, task, hist>>

\* ------------------------------------------------------------ specification
\* The services are called on a store at rest.
InitServices ==
    /\ incidents = [i \in {"inc1"} |-> PENDING]
    /\ detected_vehicles = {} /\ license_plates = {}
    /\ video_ok = TRUE /\ video = <<>>
    /\ details = [i \in {"inc1"} |-> Incident("alice", 37, -122, Now)]
    /\ files = {"inc1"}
    /\ fk_enforced = TRUE
    /\ TasksIdle
    /\ ApiIdle
    /\ AccountsIdle
    /\ ServicesIdle

NextServices ==
    \/ \E n \in 0..MaxDecoded : \E video_fps \in SourceRates : \E fps \in TargetRates :
          ExtractFramesCall(n, video_fps, fps)
    \/ \E model_loaded \in BOOLEAN : \E boxes \in SeqsUpTo(Boxes, MaxBoxes) :
          \E confidence_threshold \in {50} :
              DetectVehiclesCall(model_loaded, boxes, confidence_threshold)
    \/ \E reader_ok \in BOOLEAN : \E results \in OcrResults :
          ReadPlateTextCall(reader_ok, results)
    \/ \E cropped_image \in Crops : DetectVehicleColorCall(cropped_image)
    \/ \E reader_ok \in BOOLEAN : \E regions \in SeqsUpTo(Regions, MaxBoxes) :
          DetectLicensePlateCall(reader_ok, regions)

\* One call of a service function, on any of the arguments considered.
SpecServices == InitServices /\ [][NextServices]_vars

\* ------------------------------------------------------------------- C13
\* floor(num / div) and ceil(num / div) by their defining inequalities.
FloorDiv(num, div) == CHOOSE k \in 0..num : k * div <= num /\ num < (k + 1) * div
CeilDiv(num, div) == CHOOSE k \in 0..num : k * div >= num /\ (k - 1) * div < num

\* The interval the claim gives for source rate R and target rate T.
ClaimedInterval(R, T) ==
    IF R.num <= T * R.den THEN 1 ELSE FloorDiv(R.num, R.den * T)

\* C13: with source rate R and target rate T, extract_frames uses interval 1
\* when R <= T and floor(R/T) when T < R, and returns exactly the decoded
\* frames 0, interval, 2*interval, ... in order: ceil(total_frames/interval)
\* frames.
C13_FrameSampling ==
    service_call.fn = "extract_frames" =>
        LET interval == ClaimedInterval(service_call.video_fps, service_call.fps)
            count == CeilDiv(service_call.total_frames, interval)
        IN /\ FrameInterval(service_call.video_fps, service_call.fps) = interval
           /\ Len(service_call.returned) = count
           /\ service_call.returned = [i \in 1..count |-> (i - 1) * interval]

\* Five decoded frames at 2.5 frames per second sampled at 1: the interval
\* is 2 and frames 0, 2 and 4 are service_call.returned.
C13_Witness ==
    /\ service_call.fn = "extract_frames"
    /\ service_call.total_frames = 5 /\ service_call.video_fps = [num |-> 5, den |-> 2]
    /\ service_call.fps = 1
    /\ service_call.returned = <<0, 2, 4>>

\* ------------------------------------------------------------------- C14
\* A raw detection qualifies: its class is a vehicle class and its
\* confidence is not strictly below the threshold.
Qualifies(box, threshold) ==
    box.cls \in {2, 3, 5, 7} /\ ~(box.conf < threshold)

RECURSIVE Qualifying(_, _)
Qualifying(boxes, threshold) ==
    IF boxes = <<>>
    THEN <<>>
    ELSE (IF Qualifies(Head(boxes), threshold)
          THEN <<[vehicle_type |-> VEHICLE_CLASSES[Head(boxes).cls],
                  confidence |-> Head(boxes).conf]>>
          ELSE <<>>) \o Qualifying(Tail(boxes), threshold)

\* C14: every detection detect_vehicles returns has confidence >= threshold
\* and a vehicle_type in {car, motorcycle, bus, truck}; in a call that no
\* exception cuts short, a raw detection is returned if and only if its
\* class is a vehicle class and its confidence is not strictly below the
\* threshold (a confidence equal to the threshold is kept), the others being
\* dropped without error.
C14_ThresholdAndClasses ==
    service_call.fn = "detect_vehicles" =>
        /\ \A k \in DOMAIN service_call.returned :
               /\ service_call.returned[k].confidence >= service_call.confidence_threshold
               /\ service_call.returned[k].vehicle_type \in {"car", "motorcycle", "bus", "truck"}
        /\ (service_call.model_loaded /\ \A k \in DOMAIN service_call.boxes : ~service_call.boxes[k].raises) =>
               service_call.returned = Qualifying(service_call.boxes, service_call.confidence_threshold)

\* A person at 51 %, a car at exactly the threshold and a truck just below
\* it: only the car is returned.
C14_Witness ==
    /\ service_call.fn = "detect_vehicles" /\ service_call.model_loaded
    /\ service_call.confidence_threshold = 50
    /\ service_call.boxes = <<Box(0, 51, FALSE), Box(2, 50, FALSE)>>
    /\ service_call.returned = <<[vehicle_type |-> "car", confidence |-> 50]>>

\* ------------------------------------------------------------------- C15
\* C15: every plate text read_plate_text returns has 2 to 10 characters, is
\* uppercase, has no space and no hyphen, and has at least one letter and at
\* least one digit.
C15_PlateTextWellFormed ==
    (service_call.fn = "read_plate_text" /\ service_call.returned # None) =>
        LET text == service_call.returned.plate_number
        IN /\ Len(text) >= 2 /\ Len(text) <= 10
           /\ \A i \in DOMAIN text : text[i] \notin {"b", " ", "-"}
           /\ \E i \in DOMAIN text : IsCapital(text[i])
           /\ \E i \in DOMAIN text : IsDigit(text[i])

\* ------------------------------------------------------------------- C16
Palette == {"white", "black", "red", "green", "blue", "yellow", "gray", "other"}

\* C16: for a non-empty colour crop detect_vehicle_color returns a member of
\* the palette, determined by the average channel values, and classifies
\* the average (210,215,220) as white, (10,10,10) as black, (180,60,50) as
\* red and (120,120,0) as yellow.
C16_ColourClassification ==
    (/\ service_call.fn = "detect_vehicle_color"
     /\ service_call.cropped_image.size > 0 /\ service_call.cropped_image.ndim = 3) =>
        LET avg == service_call.cropped_image.avg_color
        IN /\ service_call.returned \in Palette
           /\ avg = <<210, 215, 220>> => service_call.returned = "white"
           /\ avg = <<10, 10, 10>> => service_call.returned = "black"
           /\ avg = <<180, 60, 50>> => service_call.returned = "red"
           /\ avg = <<120, 120, 0>> => service_call.returned = "yellow"

\* ============================================================ the accounts
\* app/api/v1/endpoints/auth.py (register) and users.py (update_user_profile).
\* A request runs in its own database session: it reads (the uniqueness
\* queries), and later writes (db.commit()); other requests may commit in
\* between.

\* The e-mail addresses and the user names the requests carry.
Emails == {"alice@x", "carol@x"}
Usernames == {"alice", "carol"}

\* str(uuid.uuid4()) of auth.py:52: the key of the user created in a slot.
NewUserIds == <<"u1", "u2", "u3", "u4", "u5">>

\* UserUpdate (app/schemas/user.py:10-13): a field that is not sent.
NotSent == "none"

\* The bodies of the update_user_profile requests: a new user name, a new
\* email, both, or another user's name.
UserUpdates ==
    {[username |-> "carol", email |-> NotSent],
     [username |-> NotSent, email |-> "carol@x"],
     [username |-> "carol", email |-> "carol@x"],
     [username |-> "alice", email |-> NotSent]}

\* db.query(User).filter(User.email == email).first() finds a row, the
\* caller's own row left aside (auth.py:35, users.py:100-103).
EmailTaken(email, self) ==
    \E u \in DOMAIN users \ {self} : users[u].email = email

\* auth.py:43, users.py:87-90
UsernameTaken(username, self) ==
    \E u \in DOMAIN users \ {self} : users[u].username = username

\* Mutant of UniqueViolation: the columns carry no unique index.
UniqueViolation_Unenforced(row, self) == FALSE

\* app/models/user.py:14-15 (unique=True on email and on username): the
\* database refuses a row whose email or username another row holds.
UniqueViolation(row, self) ==
    EmailTaken(row.email, self) \/ UsernameTaken(row.username, self)

Answer(c, status_code) ==
    user_requests' = [user_requests EXCEPT ![c].pc = "done",
                                           ![c].status_code = status_code]

\* A request starts in the lowest free slot.
Starts(c) ==
    /\ user_requests[c].pc = "idle"
    /\ \A b \in Calls : b < c => user_requests[b].pc # "idle"

\* auth.py:34-48: register looks for the email, then for the username, and
\* answers 400 when it finds one.
RegisterCheck(c, email, username) ==
    /\ Starts(c)
    /\ user_requests' =
           [user_requests EXCEPT
               ![c] = [op |-> "register", user_id |-> NewUserIds[c],
                       email |-> email, username |-> username,
                       pc |-> IF EmailTaken(email, "none") \/ UsernameTaken(username, "none")
                              THEN "done" ELSE "write",
                       status_code |-> IF EmailTaken(email, "none")
                                           \/ UsernameTaken(username, "none")
                                       THEN 400 ELSE 0]]
    /\ UNCHANGED <<users, db, file, details, files, queue, fk_enforced, request, response,
                   deleted, task, hist, svc>>

\* auth.py:50-64: db.add(new_user); db.commit(). A refused INSERT raises
\* IntegrityError, which nothing catches: the request is answered 500.
RegisterCommit(c) ==
    /\ user_requests[c].op = "register" /\ user_requests[c].pc = "write"
    /\ LET new_user == User(user_requests[c].email, user_requests[c].username)
       IN IF UniqueViolation(new_user, "none")
          THEN /\ Answer(c, 500)
               /\ UNCHANGED users
          ELSE /\ Answer(c, 201)
               /\ users' = users @@ (user_requests[c].user_id :> new_user)
    /\ UNCHANGED <<db, file, details, files, queue, fk_enforced, request, response,
                   deleted, task, hist, svc>>

\* users.py:85-109: update_user_profile checks each field that was sent
\* against the other users and answers 400 when it is taken.
UpdateCheck(c, current_user, username, email) ==
    /\ Starts(c)
    /\ current_user \in DOMAIN users
    /\ LET taken == \/ username # NotSent /\ UsernameTaken(username, current_user)
                    \/ email # NotSent /\ EmailTaken(email, current_user)
       IN user_requests' =
              [user_requests EXCEPT
                  ![c] = [op |-> "update_user_profile", user_id |-> current_user,
                          email |-> email, username |-> username,
                          pc |-> IF taken THEN "done" ELSE "write",
                          status_code |-> IF taken THEN 400 ELSE 0]]
    /\ UNCHANGED <<users, db, file, details, files, queue, fk_enforced, request, response,
                   deleted, task, hist, svc>>

\* users.py:96, 109, 111-115: the fields sent are written and committed. A
\* refused UPDATE raises IntegrityError: the request is answered 500.
UpdateCommit(c) ==
    /\ user_requests[c].op = "update_user_profile" /\ user_requests[c].pc = "write"
    /\ LET id == user_requests[c].user_id
           row == User(IF user_requests[c].email = NotSent
                       THEN users[id].email ELSE user_requests[c].email,
                       IF user_requests[c].username = NotSent
                       THEN users[id].username ELSE user_requests[c].username)
       IN IF UniqueViolation(row, id)
          THEN /\ Answer(c, 500)
               /\ UNCHANGED users
          ELSE /\ Answer(c, 200)
               /\ users' = [users EXCEPT ![id] = row]
    /\ UNCHANGED <<db, file, details, files, queue, fk_enforced, request, response,
                   deleted, task, hist, svc>>

InitAccounts ==
    /\ incidents = [i \in {"inc1"} |-> PENDING]
    /\ detected_vehicles = {} /\ license_plates = {}
    /\ video_ok = TRUE /\ video = <<>>
    /\ details = [i \in {"inc1"} |-> Incident("alice", 37, -122, Now)]
    /\ files = {"inc1"}
    /\ fk_enforced = TRUE
    /\ TasksIdle
    /\ ApiIdle
    /\ AccountsIdle
    /\ ServicesIdle

NextAccounts ==
    \E c \in Calls :
        \/ \E email \in Emails : \E username \in Usernames : RegisterCheck(c, email, username)
        \/ RegisterCommit(c)
        \/ \E current_user \in Users : \E patch \in UserUpdates :
              UpdateCheck(c, current_user, patch.username, patch.email)
        \/ UpdateCommit(c)

\* register and update_user_profile requests, interleaved in every way.
SpecAccounts == InitAccounts /\ [][NextAccounts]_vars

\* ------------------------------------------------------------------- C21
\* No two stored users share an email and no two share a username.
UsersUnique ==
    \A u, v \in DOMAIN users :
        u # v => users[u].email # users[v].email /\ users[u].username # users[v].username

\* A register request arrives in this step with this email and username.
Registers(c, email, username) ==
    /\ user_requests[c].pc = "idle"
    /\ user_requests'[c].op = "register"
    /\ user_requests'[c].email = email /\ user_requests'[c].username = username

\* C21: whatever register and update_user_profile requests run, in whatever
\* interleaving, no two users share an email and no two share a username; a
\* register request that arrives when its email or its username is used is
\* answered 400 and creates no user.
C21_UsersUnique ==
    /\ []UsersUnique
    /\ [][\A c \in Calls : \A email \in Emails : \A username \in Usernames :
             (/\ Registers(c, email, username)
              /\ EmailTaken(email, "none") \/ UsernameTaken(username, "none")) =>
                 /\ user_requests'[c].status_code = 400
                 /\ user_requests'[c].pc = "done"
                 /\ users' = users]_vars

\* Two register requests for carol both passed the checks; one created the
\* user, the other's INSERT was refused; a third request, arriving after, was
\* answered 400.
C21_Witness ==
    \E a, b, c \in Calls :
        /\ user_requests[a].op = "register" /\ user_requests[a].status_code = 201
        /\ user_requests[b].op = "register" /\ user_requests[b].status_code = 500
        /\ user_requests[c].op = "register" /\ user_requests[c].status_code = 400
        /\ user_requests[a].email = user_requests[b].email
        /\ Cardinality(DOMAIN users) = Cardinality(Users) + 1

\* ------------------------------------------------------------------- C23
\* C23: a call of detect_vehicles in which an exception is raised returns
\* the empty list, also when the exception comes after some boxes of the
\* frame were processed; so does a call on a detector whose model is None.
C23_ExceptionMeansNoDetections ==
    (/\ service_call.fn = "detect_vehicles"
     /\ \/ ~service_call.model_loaded
        \/ \E k \in DOMAIN service_call.boxes : service_call.boxes[k].raises) =>
        service_call.returned = <<>>

\* ------------------------------------------------------------------- C24
\* The candidate regions whose confidence is not below 0.5, in order.
RECURSIVE NotBelowHalf(_)
NotBelowHalf(regions) ==
    IF regions = <<>>
    THEN <<>>
    ELSE (IF Head(regions).prob >= 50
          THEN <<[confidence |-> Head(regions).prob]>>
          ELSE <<>>) \o NotBelowHalf(Tail(regions))

\* C24: detect_license_plate returns exactly the candidate regions whose
\* confidence is not below 0.5 (a region at exactly 0.5 included), in the
\* order the backend produced them.
C24_LocatorThreshold ==
    (/\ service_call.fn = "detect_license_plate" /\ service_call.reader_ok
     /\ \A k \in DOMAIN service_call.regions : ~service_call.regions[k].raises) =>
        service_call.returned = NotBelowHalf(service_call.regions)

\* ------------------------------------------------------------------- C25
\* The positions of the results of highest confidence.
Highest(results) ==
    {k \in DOMAIN results :
        \A j \in DOMAIN results : results[j].confidence <= results[k].confidence}

\* C25: read_plate_text reports at most one plate for a region: the first of
\* the results of highest confidence, normalized; when that result fails the
\* validation it returns nothing, whatever the other results are.
C25_SingleBestResult ==
    (/\ service_call.fn = "read_plate_text" /\ service_call.reader_ok
     /\ service_call.results # <<>>) =>
        LET results == service_call.results
            first == CHOOSE k \in Highest(results) : \A j \in Highest(results) : k <= j
            text == Clean(results[first].text)
        IN IF validate_plate_format(text)
           THEN service_call.returned =
                    [plate_number |-> text, confidence |-> results[first].confidence]
           ELSE service_call.returned = None

\* A read whose best result is no plate while the other result, of lower
\* confidence, is a valid plate: nothing is reported.
C25_Witness ==
    /\ service_call.fn = "read_plate_text" /\ service_call.reader_ok
    /\ Len(service_call.results) = 2
    /\ validate_plate_format(Clean(service_call.results[1].text))
    /\ service_call.results[2].confidence > service_call.results[1].confidence
    /\ ~validate_plate_format(Clean(service_call.results[2].text))
    /\ service_call.returned = None

\* ------------------------------------------------------------------- C26
\* The status an incident is left with when run r is the only one that wrote.
Last(seq) == seq[Len(seq)]
OnlyWriter(r) == \A q \in Runs \ {r} : writes[q] = <<>>

\* C26: a failure of the incident lookup, of a status write, of the commit
\* of the rows or of the final status write is caught by the outer handler,
\* and a failure of the handler's own write is caught too: the run ends and
\* the incident keeps the last status that was committed; a run whose commit
\* of the rows failed never writes completed.
C26_FailuresAreCaught ==
    \A r \in Runs :
        /\ fault[r] # "none" => pc[r] \in {"handler", "done"}
        /\ fault[r] = "query" => writes[r] \in {<<>>, <<FAILED>>}
        /\ fault[r] = "claim" => writes[r] \in {<<>>, <<FAILED>>}
        /\ fault[r] = "mark_failed" => writes[r] \in {<<PROCESSING>>, <<PROCESSING, FAILED>>}
        /\ fault[r] = "rows" =>
               /\ writes[r] \in {<<PROCESSING>>, <<PROCESSING, FAILED>>}
               /\ MyRows(r) = {}
        /\ fault[r] = "complete" => writes[r] \in {<<PROCESSING>>, <<PROCESSING, FAILED>>}
        /\ (OnlyWriter(r) /\ incident_id[r] \in DOMAIN incidents) =>
               incidents[incident_id[r]] =
                   IF writes[r] = <<>> THEN PENDING ELSE Last(writes[r])

\* The final status write of a run failed and so did the handler's write:
\* the run has ended, its rows are committed and the incident is left
\* processing.
C26_Witness ==
    \E r \in Runs :
        /\ fault[r] = "complete" /\ pc[r] = "done"
        /\ writes[r] = <<PROCESSING>> /\ OnlyWriter(r)
        /\ incidents["inc1"] = PROCESSING
        /\ MyRows(r) # {}

\* ------------------------------------------------------------------- C28
\* The objects a run holds are in the order of their frames.
InFrameOrder(sess) ==
    \A i, j \in DOMAIN sess : i < j => sess[i].frame_timestamp <= sess[j].frame_timestamp

\* C28: every object created while the i-th sampled frame (from 0) is
\* processed, DetectedVehicle or LicensePlate, has frame_timestamp i; the
\* objects of a run are created in non-decreasing frame_timestamp order, and
\* every frame_timestamp is in 0..N-1, N being the number of sampled frames.
C28_FrameTimestamps ==
    /\ [](\A r \in Runs :
             /\ InFrameOrder(session[r])
             /\ \A o \in Range(session[r]) \cup MyRows(r) :
                    o.frame_timestamp \in 0..(Len(video) - 1))
    /\ [][\A r \in Runs :
             \A k \in (DOMAIN session'[r]) \ (DOMAIN session[r]) :
                 session'[r][k].frame_timestamp = frame_idx[r]]_vars

\* A run over two frames has committed a vehicle and a plate of frame 0 and
\* a vehicle and a plate of frame 1.
C28_Witness ==
    \E r \in Runs :
        /\ Len(video) = 2 /\ COMPLETED \in Statuses(r)
        /\ \A k \in {0, 1} :
               /\ AtFrame(MyVehicles(r), k) # {}
               /\ AtFrame(MyPlates(r), k) # {}

\* ------------------------------------------------------------------- C29
\* A plate read on a vehicle of the frame raises.
PlateReadRaises(frame) ==
    \E j \in DOMAIN frame.vehicles : frame.vehicles[j].plate = Raise

\* C29: every committed LicensePlate row with a detection_id refers to a
\* committed DetectedVehicle row of the same incident and the same frame; a
\* plate read that raises on a vehicle leaves that vehicle's DetectedVehicle
\* object in place, and the other vehicles of the frame and the whole-frame
\* scan are processed all the same.
C29_AssociationIntegrity ==
    /\ \A p \in license_plates :
           p.detection_id # NULL =>
               \E dv \in detected_vehicles :
                   /\ dv.detection_id = p.detection_id
                   /\ dv.incident_id = p.incident_id
                   /\ dv.frame_timestamp = p.frame_timestamp
    /\ \A r \in Runs : Holding(r) =>
           \A k \in Range(attempted[r]) :
               LET frame == video[k + 1]
                   vehicles == AtFrame(VehiclesOf(Objects(r)), k)
                   plates == AtFrame(PlatesOf(Objects(r)), k)
               IN (PlateReadRaises(frame) /\ ~FrameRaises(frame)) =>
                      /\ {<<j, frame.vehicles[j].vehicle_type>> : j \in DOMAIN frame.vehicles}
                             \subseteq {<<j, dv.vehicle_type>> :
                                           j \in DOMAIN frame.vehicles, dv \in vehicles}
                      /\ Cardinality(vehicles) = Len(frame.vehicles)
                      /\ \A j \in CropReads(frame) :
                             \E p \in plates :
                                 /\ p.plate_number = frame.vehicles[j].plate
                                 /\ \E dv \in vehicles :
                                       /\ dv.detection_id = p.detection_id
                                       /\ dv.vehicle_type = frame.vehicles[j].vehicle_type
                      /\ \A j \in RegionReads(frame) :
                             \E p \in plates :
                                 p.plate_number = frame.hits[j] /\ p.detection_id = NULL

\* A committed frame whose first vehicle's plate read raised: the car's row
\* is there without a plate, the motorcycle's row has its plate, and the
\* whole-frame scan gave its plate.
C29_Witness ==
    \E r \in Runs : \E k \in DOMAIN video :
        /\ video[k] = F_plateRaise /\ COMPLETED \in Statuses(r)
        /\ \E car, moto \in AtFrame(MyVehicles(r), k - 1) :
              /\ car.vehicle_type = "car" /\ moto.vehicle_type = "motorcycle"
              /\ \A p \in MyPlates(r) : p.detection_id # car.detection_id
              /\ \E p \in MyPlates(r) :
                    p.detection_id = moto.detection_id /\ p.plate_number = "XYZ789"
        /\ \E p \in AtFrame(MyPlates(r), k - 1) :
              p.detection_id = NULL /\ p.plate_number = "LMN456"

\* ------------------------------------------------------------------- C27
\* The statements of a run that has started: the worker executes them one
\* after the other, none of them waits for anything.
Continues(r) ==
    \/ MarkProcessing(r)
    \/ ExtractFrames(r)
    \/ MarkExtractFailed(r)
    \/ ProcessFrame(r)
    \/ CommitDetections(r)
    \/ GenerateThumbnail(r)
    \/ MarkCompleted(r)

\* The behaviours in which no database call raises, no worker dies, and a
\* worker that has started a run keeps executing it.
SpecLive == Init /\ [][NextReliable]_vars /\ \A r \in Runs : WF_vars(Continues(r))

\* C27: a run that has set its incident to processing eventually sets it to
\* completed or to failed, when the worker is not killed and the database
\* writes succeed: the frame loop walks a finite sequence and no failure in
\* a frame keeps it from reaching the end.
C27_ClaimedRunsFinish ==
    \A r \in Runs :
        (PROCESSING \in Statuses(r)) ~> (COMPLETED \in Statuses(r) \/ FAILED \in Statuses(r))

\* A run over the longest video, with a frame that raises, has written
\* processing and then completed.
C27_Witness ==
    \E r \in Runs :
        /\ Len(video) = MaxFrames /\ FailingFrames # {}
        /\ attempted[r] = Indices(MaxFrames)
        /\ writes[r] = <<PROCESSING, COMPLETED>>

\* ============================================== the API and the task together
\* report_incident puts a task on the queue, a worker takes it and runs
\* process_incident_video, and delete_incident may be served at any moment
\* in between.

\* A status write of the main path (lines 40, 56, 162) whose incident has
\* been deleted in the meantime: the UPDATE matches no row, the commit raises
\* and the outer handler runs (lines 167-168).
StaleStatusWrite(r) ==
    /\ r \notin crashed
    /\ pc[r] \in {"claim", "extract_failed", "complete"}
    /\ ~Found(incident_id[r])
    /\ RaiseToHandler(r, "stale")
    /\ UNCHANGED <<db, file, api, svc, incident_id, frame_idx, crashed, writes, extracted,
                   attempted, thumb>>

\* Line 147 when the INSERT of the rows is refused: the commit raises and
\* the outer handler runs.
RowsRefused(r) ==
    /\ r \notin crashed
    /\ pc[r] = "frames" /\ frame_idx[r] >= Len(video)
    /\ Refused(r)
    /\ RaiseToHandler(r, "rows")
    /\ UNCHANGED <<db, file, api, svc, incident_id, frame_idx, crashed, writes, extracted,
                   attempted, thumb>>

\* The broker hands a task of the queue to a worker, which starts
\* process_incident_video with its argument: the next task, or once more a
\* task handed out before (a task not acknowledged in time is redelivered).
Deliver(r) ==
    \E k \in DOMAIN queue :
        /\ k <= r
        /\ QueryIncident(r, queue[k])

\* The requests made here: alice reports incidents, with a form that is
\* accepted, and deletes incidents of hers.
Reporters == {"alice"}
SystemForms == {GoodForm}

\* An empty store; every uploaded video is one frame with a car and a plate.
InitSystem ==
    /\ incidents = <<>> /\ details = <<>>
    /\ detected_vehicles = {} /\ license_plates = {}
    /\ video_ok = TRUE /\ video = <<F_both>>
    /\ files = {}
    /\ fk_enforced \in BOOLEAN
    /\ TasksIdle
    /\ ApiIdle
    /\ AccountsIdle
    /\ ServicesIdle

NextSystem ==
    \/ \E user \in Reporters : \E form \in SystemForms : ReportIncident(user, form)
    \/ \E user \in Reporters : \E form \in SystemForms : ReportCommitRaises(user, form)
    \/ \E user \in Reporters : \E id \in DOMAIN incidents : DeleteIncident(user, id)
    \/ \E r \in Runs : Deliver(r)
    \/ \E r \in Runs : Continues(r)
    \/ \E r \in Runs : Handler(r)
    \/ \E r \in Runs : StaleStatusWrite(r)
    \/ \E r \in Runs : RowsRefused(r)

SpecSystem == InitSystem /\ [][NextSystem]_vars

\* ------------------------------------------------------------------- C22
\* C22: a report answered 201 has created the incident with status pending,
\* returns it as pending, and has put the incident's task on the queue once,
\* the incident being committed by then; every task on the queue is for an
\* incident that was committed, and a worker started for a task finds the
\* incident unless it has been deleted in between.
C22_EnqueuedOnceAfterCommit ==
    /\ [](/\ \A i, j \in DOMAIN queue : i # j => queue[i] # queue[j]
          /\ \A k \in DOMAIN queue : queue[k] \in DOMAIN incidents \cup deleted)
    /\ [][(Serving /\ request'.method = "POST" /\ response'.status_code = 201) =>
             LET id == response'.body.incident_id
             IN /\ id \notin DOMAIN incidents
                /\ id \in DOMAIN incidents' /\ incidents'[id] = PENDING
                /\ response'.body.processing_status = PENDING
                /\ queue' = Append(queue, id)]_vars
    /\ [][\A r \in Runs :
             (pc[r] = "idle" /\ pc'[r] = "done") => incident_id'[r] \in deleted]_vars

\* Two reports were accepted; the worker of the first task found its
\* incident and set it to processing, the worker of the second task found
\* nothing, its incident having been deleted before it started.
C22_Witness ==
    /\ Len(queue) = 2
    /\ pc[1] # "idle" /\ incident_id[1] = queue[1] /\ PROCESSING \in Statuses(1)
    /\ pc[2] = "done" /\ incident_id[2] = queue[2] /\ writes[2] = <<>>
    /\ fault[2] = "none" /\ queue[2] \in deleted

\* ------------------------------------------------------------------- C30
\* C30: with delete_incident served while process_incident_video runs on the
\* same incident, no DetectedVehicle or LicensePlate row ever references an
\* incident that does not exist, and the run neither re-creates the deleted
\* incident nor writes a processing_status for it.
C30_DeleteDuringRun ==
    /\ [](\A o \in detected_vehicles \cup license_plates :
             o.incident_id \in DOMAIN incidents)
    /\ [][\A id \in deleted :
             /\ id \notin DOMAIN incidents'
             /\ \A r \in Runs : incident_id[r] = id => writes'[r] = writes[r]]_vars

====
